---- MODULE Spec2Model ----
(***************************************************************************)
(* Model of playwright-go's EventEmitter (src/event_emitter.go, lines      *)
(* 1-123): the registration map, the two hook lists, the embedded mutex,   *)
(* and the operations Emit, On, Once, RemoveListener, ListenerCount,       *)
(* addEventHandler and removeEventHandler, run by concurrent callers.      *)
(***************************************************************************)
EXTENDS Integers, Sequences, FiniteSets

(***************************************************************************)
(* Bounds of the model.                                                    *)
(***************************************************************************)
\* registrations (On/Once calls) performed in one behaviour of one caller
MaxReg == 2
\* registrations performed in one behaviour on a single event name
MaxOrderReg == 3
\* registrations performed in one behaviour of concurrent callers
MaxConcReg == 2
\* registrations performed in one behaviour with hooks installed
MaxHookReg == 1
\* arguments passed to an Emit call of concurrent callers
MaxConcArgs == 1
\* longest payload handed to Emit
MaxArgs == 2
\* hooks installed per hook list
MaxHooks == 2
\* On/Once/RemoveListener calls of one behaviour whose history is kept
MaxCalls == 3

Threads == {"t1", "t2"}
Names == {"a", "b"}
\* Handlers are Go func values. "f" is a function of no parameter; "g1" and
\* "g2" are two closures of one function literal of one parameter.
Handlers == {"f", "g1", "g2"}
Hooks == {"k1", "k2"}
\* Handlers of one parameter whose body calls the emitter they are registered
\* on: On, Once, RemoveListener, ListenerCount, Emit or addEventHandler.
ReHandlers == {"rOn", "rOnce", "rRemove", "rCount", "rEmit", "rHook"}

Reentrant(h) == h \in ReHandlers

InnerCall(h) ==
  CASE h = "rOn" -> "On"
    [] h = "rOnce" -> "Once"
    [] h = "rRemove" -> "RemoveListener"
    [] h = "rCount" -> "ListenerCount"
    [] h = "rEmit" -> "Emit"
    [] OTHER -> "addEventHandler"

\* Every operation of the emitter but addEventHandler and removeEventHandler
\* begins with e.Lock() (lines 22, 65, 94, 106).
Locks(h) == InnerCall(h) \notin {"addEventHandler", "removeEventHandler"}
NoThread == "none"

\* reflect.ValueOf(handler).Type().NumIn(): the declared arity.
NumIn(h) == IF h = "f" THEN 0 ELSE 1

\* reflect.ValueOf(handler).Pointer(): for a func value the code pointer,
\* which the closures of one function literal share.
Pointer(h) == IF h = "f" THEN "code_f" ELSE IF h \in {"g1", "g2"} THEN "code_g" ELSE h

\* payload ...interface{} of an Emit with k arguments: a1..ak, ai = i.
Payload(k) == [i \in 1..k |-> i]

VARIABLES
  events,               \* e.events: name -> *eventRegister (ok = FALSE: no entry)
  addEventHandlers,     \* e.addEventHandlers
  removeEventHandlers,  \* e.removeEventHandlers
  mutex,                \* e.Mutex: the goroutine holding it, or NoThread
  th,                   \* per goroutine: the call it is in and its locals
  nextReg,              \* history: number the next registration gets
  fired,                \* history: the registered one-shot handlers invoked so far
  again,                \* history: those of them invoked more than once
  calls,                \* history: the calls committed on each event name
  keep                  \* history: whether finished calls are remembered

\* The installer and Run (lines 144-278).
VARIABLES
  disk,                 \* the cache folder .ms-playwright and the driver file in it
  goos,                 \* runtime.GOOS
  host,                 \* the goroutine that calls Install or Run: position and locals
  proc,                 \* cmd of the current Run: the driver child process
  attempts              \* history: Install/Run calls made so far

\* The Connection.
VARIABLES
  conn,                 \* state of the Connection: none, created, running, closed
  loop,                 \* the goroutine of the read loop
  nextId,               \* the next-id counter
  pending,              \* the table of Pending Calls
  cl,                   \* per caller of sendCall: position and locals
  wire,                 \* request frames written to the driver and not yet answered
  pipe,                 \* inbound frames the driver has written and the loop has not read
  registry,             \* the Remote Object Registry: the GUIDs registered
  delivered,            \* history: the notifications emitted on a proxy
  logged,               \* the notifications dropped and logged
  issued                \* history: per request id, its caller, the payload the
                        \* driver answered it with, and how often it was completed

\* RequestContent (lines 280-318).
VARIABLES
  client,               \* client.CheckRedirect of the shared *http.Client
  rq                    \* per caller of RequestContent: position and locals

emitterVars == <<events, addEventHandlers, removeEventHandlers, mutex, th, nextReg, fired, again, calls, keep>>
driverVars == <<disk, goos, host, proc, attempts>>
connVars == <<conn, loop, nextId, pending, cl, wire, pipe, registry, delivered, logged, issued>>
httpVars == <<client, rq>>

vars == <<emitterVars, driverVars, connVars, httpVars>>

NoEntry == [ok |-> FALSE, on |-> <<>>, once |-> <<>>]

NoEvents == [n \in Names |-> NoEntry]

Idle == [pc |-> "idle", op |-> "none", name |-> "a", h |-> "f", once |-> FALSE,
         k |-> 0, i |-> 0, hooks |-> <<>>, rng |-> <<>>, log |-> <<>>, snap |-> NoEvents,
         ret |-> 0, res |-> "none"]

\* Before the first Install or Run: the working directory holds no cache
\* folder, no call is under way, no child process exists.
NoFile == [folder |-> FALSE, driver |-> "absent", exec |-> FALSE, browsers |-> FALSE]

Outside == [pc |-> "idle", op |-> "none", installed |-> FALSE, failed |-> "none",
            handshake |-> "none", ret |-> "none"]

DriverIdle(os) ==
  /\ disk = NoFile
  /\ goos = os
  /\ host = Outside
  /\ proc = "none"
  /\ attempts = 0

\* The goroutines that call sendCall, and a Connection in state st with no
\* call issued, no frame in flight and no object registered.
Callers == {"c1", "c2"}

NoCall == [pc |-> "idle", id |-> 0, slot |-> "none", result |-> "none"]

ConnIdle(st) ==
  /\ conn = st
  /\ loop = "none"
  /\ nextId = 1
  /\ pending = <<>>
  /\ cl = [c \in Callers |-> NoCall]
  /\ wire = {}
  /\ pipe = <<>>
  /\ registry = {}
  /\ delivered = <<>>
  /\ logged = <<>>
  /\ issued = <<>>

\* The goroutines that call RequestContent on one *http.Client whose
\* CheckRedirect is the one its owner gave it.
Requesters == {"q1", "q2"}

NoRequest == [pc |-> "idle", IgnoreRedirect |-> FALSE, originalRedirect |-> "unset",
              ran |-> "none", calls |-> 0]

HttpIdle ==
  /\ client = "original"
  /\ rq = [q \in Requesters |-> NoRequest]

\* The emitter alone: no installer call, no Connection traffic, no request.
EmitterOnly == DriverIdle("linux") /\ ConnIdle("none") /\ HttpIdle

\* initEventEmitter: an empty map; no hook installed; the mutex unlocked.
Fresh ==
  /\ events = NoEvents
  /\ addEventHandlers = <<>>
  /\ removeEventHandlers = <<>>
  /\ mutex = NoThread
  /\ th = [t \in Threads |-> Idle]
  /\ nextReg = 1
  /\ fired = {}
  /\ again = {}
  /\ calls = [n \in Names |-> <<>>]

Init == Fresh /\ keep = FALSE /\ EmitterOnly

\* A goroutine between two calls; the record of its last call stays readable.
Begin(t, op, n, h, o, k) ==
  [Idle EXCEPT !.op = op, !.name = n, !.h = h, !.once = o, !.k = k]

\* The call of record c has ended with res; its locals are gone.
Ended(c, res) ==
  IF keep
  THEN [c EXCEPT !.pc = "idle", !.res = res, !.i = 0, !.rng = <<>>]
  ELSE Idle

Return(t, res) == Ended(th[t], res)

\* A Lock that would return although another goroutine holds the mutex.
CanLockAlways(t) == TRUE

\* A Lock that would let the goroutine that holds the mutex in again.
CanLockReentrant(t) == mutex \in {NoThread, t}

\* e.Lock() returns only while no goroutine holds the mutex.
CanLock(t) == mutex = NoThread

(***************************************************************************)
(* addEventHandler, removeEventHandler: append a hook.                     *)
(***************************************************************************)
addEventHandler(hk) ==
  /\ Len(addEventHandlers) < MaxHooks
  /\ addEventHandlers' = Append(addEventHandlers, hk)
  /\ UNCHANGED <<events, removeEventHandlers, mutex, th, nextReg, fired, again, calls, keep, driverVars, connVars, httpVars>>

removeEventHandler(hk) ==
  /\ Len(removeEventHandlers) < MaxHooks
  /\ removeEventHandlers' = Append(removeEventHandlers, hk)
  /\ UNCHANGED <<events, addEventHandlers, mutex, th, nextReg, fired, again, calls, keep, driverVars, connVars, httpVars>>

(***************************************************************************)
(* On, Once -> addEvent.                                                   *)
(***************************************************************************)
\* goroutines inside addEvent that have not yet appended their handler
InAdd == {u \in Threads : th[u].pc \in {"add_hooks", "add_lock"}}

\* registrations begun so far, against a bound m of the model
RegBudget(m) == nextReg + Cardinality(InAdd) <= m

\* A loop that would walk the hooks last first.
HookAtReversed(hooks, i) == hooks[Len(hooks) - i + 1]

\* the hook the loop `for _, mitm := range hooks` reaches in its i-th round
HookAt(hooks, i) == hooks[i]

\* The call is entered: `range e.addEventHandlers` reads the slice once.
addEvent(t, n, h, o) ==
  /\ th[t].pc = "idle"
  /\ th' = [th EXCEPT ![t] = [Begin(t, "add", n, h, o, 0) EXCEPT
               !.pc = IF addEventHandlers = <<>> THEN "add_lock" ELSE "add_hooks",
               !.hooks = addEventHandlers, !.i = 1]]
  /\ UNCHANGED <<events, addEventHandlers, removeEventHandlers, mutex, nextReg, fired, again, calls, keep, driverVars, connVars, httpVars>>

Once(t, n, h) == addEvent(t, n, h, TRUE)

On(t, n, h) == addEvent(t, n, h, FALSE)

\* One round of the loop of lines 103-105: mitm(name, handler).
AddHook(t) ==
  /\ th[t].pc = "add_hooks"
  /\ LET c == th[t] IN
     th' = [th EXCEPT ![t] = [c EXCEPT
               !.log = Append(c.log, <<HookAt(c.hooks, c.i), c.name, c.h>>),
               !.i = c.i + 1,
               !.pc = IF c.i >= Len(c.hooks) THEN "add_lock" ELSE "add_hooks"]]
  /\ UNCHANGED <<events, addEventHandlers, removeEventHandlers, mutex, nextReg, fired, again, calls, keep, driverVars, connVars, httpVars>>

\* An append that would skip a handler the slice already holds.
AppendHandlerUnique(seq, e) ==
  IF \E j \in 1..Len(seq) : seq[j].h = e.h THEN seq ELSE Append(seq, e)

\* e.events[name].once / .on = append(..., handler)
AppendHandler(seq, e) == Append(seq, e)

\* Lines 106-118 with the registration map given: create the entry, append.
Registered(ev, n, h, o, r) ==
  LET reg == IF ev[n].ok THEN ev[n] ELSE [ok |-> TRUE, on |-> <<>>, once |-> <<>>]
      e   == [h |-> h, reg |-> r]
  IN [ev EXCEPT ![n] = IF o THEN [reg EXCEPT !.once = AppendHandler(reg.once, e)]
                            ELSE [reg EXCEPT !.on = AppendHandler(reg.on, e)]]

\* Lines 106-118: Lock, create the entry, append, Unlock.
AddCommitCore(t) ==
  /\ th[t].pc = "add_lock"
  /\ CanLock(t)
  /\ events' = Registered(events, th[t].name, th[t].h, th[t].once, nextReg)
  /\ nextReg' = nextReg + 1
  /\ th' = [th EXCEPT ![t] = Ended([th[t] EXCEPT !.snap = events], "ok")]
  /\ UNCHANGED <<addEventHandlers, removeEventHandlers, mutex, fired, again, keep, driverVars, connVars, httpVars>>

AddCommit(t) == AddCommitCore(t) /\ UNCHANGED calls

(***************************************************************************)
(* RemoveListener.                                                         *)
(***************************************************************************)
RemoveListener(t, n, h) ==
  /\ th[t].pc = "idle"
  /\ th' = [th EXCEPT ![t] = [Begin(t, "remove", n, h, FALSE, 0) EXCEPT
               !.pc = IF removeEventHandlers = <<>> THEN "rem_lock" ELSE "rem_hooks",
               !.hooks = removeEventHandlers, !.i = 1]]
  /\ UNCHANGED <<events, addEventHandlers, removeEventHandlers, mutex, nextReg, fired, again, calls, keep, driverVars, connVars, httpVars>>

\* One round of the loop of lines 62-64.
RemHook(t) ==
  /\ th[t].pc = "rem_hooks"
  /\ LET c == th[t] IN
     th' = [th EXCEPT ![t] = [c EXCEPT
               !.log = Append(c.log, <<HookAt(c.hooks, c.i), c.name, c.h>>),
               !.i = c.i + 1,
               !.pc = IF c.i >= Len(c.hooks) THEN "rem_lock" ELSE "rem_hooks"]]
  /\ UNCHANGED <<events, addEventHandlers, removeEventHandlers, mutex, nextReg, fired, again, calls, keep, driverVars, connVars, httpVars>>

\* A removal that would hand back the kept entries last first.
RECURSIVE KeptReversed(_, _)
KeptReversed(seq, ptr) ==
  IF seq = <<>> THEN <<>>
  ELSE IF Pointer(Head(seq).h) # ptr
       THEN KeptReversed(Tail(seq), ptr) \o <<Head(seq)>>
       ELSE KeptReversed(Tail(seq), ptr)

\* The loops of lines 72-78 and 81-87: keep, in order, the entries whose
\* Pointer() differs from the handler's.
RECURSIVE Kept(_, _)
Kept(seq, ptr) ==
  IF seq = <<>> THEN <<>>
  ELSE IF Pointer(Head(seq).h) # ptr
       THEN <<Head(seq)>> \o Kept(Tail(seq), ptr)
       ELSE Kept(Tail(seq), ptr)

\* A removal that would filter the durable handlers only.
RemovedDurableOnly(ev, n, h) ==
  IF ~ev[n].ok THEN ev
  ELSE [ev EXCEPT ![n] = [ok |-> TRUE,
                          on |-> Kept(ev[n].on, Pointer(h)),
                          once |-> ev[n].once]]

\* Lines 67-89 with the registration map given.
Removed(ev, n, h) ==
  IF ~ev[n].ok THEN ev
  ELSE [ev EXCEPT ![n] = [ok |-> TRUE,
                          on |-> Kept(ev[n].on, Pointer(h)),
                          once |-> Kept(ev[n].once, Pointer(h))]]

\* the registration numbers of the one-shot handlers of a registration map
LiveOnce(ev) == UNION {{ev[n].once[j].reg : j \in 1..Len(ev[n].once)} : n \in Names}

\* Lines 65-89: Lock, return if there is no entry, filter both slices, Unlock.
RemCommitCore(t) ==
  /\ th[t].pc = "rem_lock"
  /\ CanLock(t)
  /\ events' = Removed(events, th[t].name, th[t].h)
  /\ fired' = fired \cap LiveOnce(events')
  /\ again' = again \cap LiveOnce(events')
  /\ th' = [th EXCEPT ![t] = Ended([th[t] EXCEPT !.snap = events], "ok")]
  /\ UNCHANGED <<addEventHandlers, removeEventHandlers, mutex, nextReg, keep, driverVars, connVars, httpVars>>

RemCommit(t) == RemCommitCore(t) /\ UNCHANGED calls

(***************************************************************************)
(* ListenerCount.                                                          *)
(***************************************************************************)
ListenerCount(t, n) ==
  /\ th[t].pc = "idle"
  /\ th' = [th EXCEPT ![t] = [Begin(t, "count", n, "f", FALSE, 0) EXCEPT !.pc = "count_lock"]]
  /\ UNCHANGED <<events, addEventHandlers, removeEventHandlers, mutex, nextReg, fired, again, calls, keep, driverVars, connVars, httpVars>>

\* len(e.events[key].on) + len(e.events[key].once)
RegLen(ev, key) == Len(ev[key].on) + Len(ev[key].once)

RECURSIVE SumOver(_, _)
SumOver(ev, keys) ==
  IF keys = {} THEN 0
  ELSE LET key == CHOOSE x \in keys : TRUE
       IN RegLen(ev, key) + SumOver(ev, keys \ {key})

\* Lines 93-99: the loop `for key := range e.events` adds up every entry;
\* the parameter name is not read.
Counted(ev, n) == SumOver(ev, {key \in Names : ev[key].ok})

CountCommit(t) ==
  /\ th[t].pc = "count_lock"
  /\ CanLock(t)
  /\ th' = [th EXCEPT ![t] = Ended([th[t] EXCEPT !.ret = Counted(events, th[t].name),
                                                   !.snap = events], "ok")]
  /\ UNCHANGED <<events, addEventHandlers, removeEventHandlers, mutex, nextReg, fired, again, calls, keep, driverVars, connVars, httpVars>>

(***************************************************************************)
(* Emit.                                                                   *)
(***************************************************************************)
Emit(t, n, k) ==
  /\ th[t].pc = "idle"
  /\ th' = [th EXCEPT ![t] = [Begin(t, "emit", n, "f", FALSE, k) EXCEPT !.pc = "emit_lock"]]
  /\ UNCHANGED <<events, addEventHandlers, removeEventHandlers, mutex, nextReg, fired, again, calls, keep, driverVars, connVars, httpVars>>

\* An Emit that would create the entry it does not find.
EmitNoEntryAllocates(t) ==
  /\ th[t].pc = "emit_lock"
  /\ CanLock(t)
  /\ ~events[th[t].name].ok
  /\ events' = [events EXCEPT ![th[t].name] = [ok |-> TRUE, on |-> <<>>, once |-> <<>>]]
  /\ th' = [th EXCEPT ![t] = Ended([th[t] EXCEPT !.snap = events], "ok")]
  /\ UNCHANGED <<addEventHandlers, removeEventHandlers, mutex, nextReg, fired, again, calls, keep, driverVars, connVars, httpVars>>

\* Lines 22-26 for a name without entry: Lock, return, the deferred Unlock.
EmitNoEntry(t) ==
  /\ th[t].pc = "emit_lock"
  /\ CanLock(t)
  /\ ~events[th[t].name].ok
  /\ th' = [th EXCEPT ![t] = Ended([th[t] EXCEPT !.snap = events], "ok")]
  /\ UNCHANGED <<events, addEventHandlers, removeEventHandlers, mutex, nextReg, fired, again, calls, keep, driverVars, connVars, httpVars>>

\* Lines 22-34: Lock, the entry exists, `range e.events[name].on` is read.
EmitLock(t) ==
  /\ th[t].pc = "emit_lock"
  /\ CanLock(t)
  /\ events[th[t].name].ok
  /\ mutex' = t
  /\ th' = [th EXCEPT ![t] = [@ EXCEPT !.pc = "emit_on", !.i = 1,
                                       !.rng = events[th[t].name].on,
                                       !.snap = events]]
  /\ UNCHANGED <<events, addEventHandlers, removeEventHandlers, nextReg, fired, again, calls, keep, driverVars, connVars, httpVars>>

\* payloadV[:handlerV.Type().NumIn()]
CallArgs(k, h) == SubSeq(Payload(k), 1, NumIn(h))

\* A dispatch that would demand exactly NumIn() arguments.
ArityPanicsUnlessEqual(k, h) == NumIn(h) # k

\* The slice expression and reflect's Call panic unless the payload holds
\* NumIn() values.
ArityPanics(k, h) == NumIn(h) > k

Invocation(c) ==
  [h |-> c.rng[c.i].h, reg |-> c.rng[c.i].reg, args |-> CallArgs(c.k, c.rng[c.i].h)]

\* A panic leaves Emit through the deferred Unlock of line 23.
EmitPanics(t, c, res) ==
  /\ th' = [th EXCEPT ![t] = Ended(c, res)]
  /\ mutex' = NoThread

\* One round of the loop of lines 34-37: the handler is called and returns,
\* is called and panics, or is not called because its arguments panic.
EmitOnCall(t) ==
  /\ th[t].pc = "emit_on"
  /\ th[t].i <= Len(th[t].rng)
  /\ LET c == th[t] IN
     IF ArityPanics(c.k, c.rng[c.i].h)
     THEN EmitPanics(t, c, "panic_args")
     ELSE /\ ~Reentrant(c.rng[c.i].h)
          /\ \/ /\ th' = [th EXCEPT ![t] = [c EXCEPT !.log = Append(c.log, Invocation(c)),
                                                     !.i = c.i + 1]]
                /\ UNCHANGED mutex
             \/ EmitPanics(t, [c EXCEPT !.log = Append(c.log, Invocation(c))], "panic_body")
  /\ UNCHANGED <<events, addEventHandlers, removeEventHandlers, nextReg, fired, again, calls, keep, driverVars, connVars, httpVars>>

\* Line 38: the first loop has ended, `range e.events[name].once` is read.
EmitOnDone(t) ==
  /\ th[t].pc = "emit_on"
  /\ th[t].i > Len(th[t].rng)
  /\ th' = [th EXCEPT ![t] = [@ EXCEPT !.pc = "emit_once", !.i = 1,
                                       !.rng = events[th[t].name].once]]
  /\ UNCHANGED <<events, addEventHandlers, removeEventHandlers, mutex, nextReg, fired, again, calls, keep, driverVars, connVars, httpVars>>

\* One round of the loop of lines 38-41.
EmitOnceCall(t) ==
  /\ th[t].pc = "emit_once"
  /\ th[t].i <= Len(th[t].rng)
  /\ LET c == th[t]
         r == c.rng[c.i].reg
     IN IF ArityPanics(c.k, c.rng[c.i].h)
        THEN EmitPanics(t, c, "panic_args") /\ UNCHANGED <<fired, again>>
        ELSE /\ ~Reentrant(c.rng[c.i].h)
             /\ fired' = fired \cup {r}
             /\ again' = IF r \in fired THEN again \cup {r} ELSE again
             /\ \/ /\ th' = [th EXCEPT ![t] = [c EXCEPT !.log = Append(c.log, Invocation(c)),
                                                        !.i = c.i + 1]]
                   /\ UNCHANGED mutex
                \/ EmitPanics(t, [c EXCEPT !.log = Append(c.log, Invocation(c))], "panic_body")
  /\ UNCHANGED <<events, addEventHandlers, removeEventHandlers, nextReg, calls, keep, driverVars, connVars, httpVars>>

\* A clearing that would empty the durable sequence too.
ClearedBoth(reg) == [reg EXCEPT !.once = <<>>, !.on = <<>>]

\* e.events[name].once = make([]interface{}, 0)
Cleared(reg) == [reg EXCEPT !.once = <<>>]

\* Line 42 and the deferred Unlock: the second loop has ended.
EmitClear(t) ==
  /\ th[t].pc = "emit_once"
  /\ th[t].i > Len(th[t].rng)
  /\ events' = [events EXCEPT ![th[t].name] = Cleared(@)]
  /\ fired' = fired \cap LiveOnce(events')
  /\ again' = again \cap LiveOnce(events')
  /\ mutex' = NoThread
  /\ th' = [th EXCEPT ![t] = Return(t, "ok")]
  /\ UNCHANGED <<addEventHandlers, removeEventHandlers, nextReg, calls, keep, driverVars, connVars, httpVars>>

(***************************************************************************)
(* The emitter used by concurrent callers, no hook installed.              *)
(***************************************************************************)
ConcHandlers == {"f", "g1"}

Next ==
  \/ \E t \in Threads, n \in Names, h \in ConcHandlers :
       \/ RegBudget(MaxConcReg) /\ (On(t, n, h) \/ Once(t, n, h))
       \/ RemoveListener(t, n, h)
  \/ \E t \in Threads, n \in Names : ListenerCount(t, n)
  \/ \E t \in Threads, n \in Names, k \in 0..MaxConcArgs : Emit(t, n, k)
  \/ \E t \in Threads :
       \/ AddCommit(t) \/ RemCommit(t) \/ CountCommit(t)
       \/ EmitNoEntry(t) \/ EmitLock(t) \/ EmitOnCall(t) \/ EmitOnDone(t)
       \/ EmitOnceCall(t) \/ EmitClear(t)

Spec == Init /\ [][Next]_vars

(***************************************************************************)
(* The emitter used by one caller; every finished call is remembered until *)
(* the caller's next call.                                                 *)
(***************************************************************************)
Caller == "t1"

InitSeq == Fresh /\ keep = TRUE /\ EmitterOnly

NextSeq ==
  \/ \E n \in Names, h \in Handlers :
       \/ RegBudget(MaxReg) /\ (On(Caller, n, h) \/ Once(Caller, n, h))
       \/ RemoveListener(Caller, n, h)
  \/ \E n \in Names : ListenerCount(Caller, n)
  \/ \E n \in Names, k \in 0..MaxArgs : Emit(Caller, n, k)
  \/ AddCommit(Caller) \/ RemCommit(Caller) \/ CountCommit(Caller)
  \/ EmitNoEntry(Caller) \/ EmitLock(Caller) \/ EmitOnCall(Caller) \/ EmitOnDone(Caller)
  \/ EmitOnceCall(Caller) \/ EmitClear(Caller)

SpecSeq == InitSeq /\ [][NextSeq]_vars

(***************************************************************************)
(* The emitter used by one caller on a single event name, with room for    *)
(* more registrations.                                                     *)
(***************************************************************************)
OneName == "a"

NextOrder ==
  \/ \E h \in Handlers :
       \/ RegBudget(MaxOrderReg) /\ (On(Caller, OneName, h) \/ Once(Caller, OneName, h))
       \/ RemoveListener(Caller, OneName, h)
  \/ \E k \in 0..MaxArgs : Emit(Caller, OneName, k)
  \/ AddCommit(Caller) \/ RemCommit(Caller)
  \/ EmitNoEntry(Caller) \/ EmitLock(Caller) \/ EmitOnCall(Caller) \/ EmitOnDone(Caller)
  \/ EmitOnceCall(Caller) \/ EmitClear(Caller)

SpecOrder == InitSeq /\ [][NextOrder]_vars

(***************************************************************************)
(* The emitter used by one caller while hooks are installed.               *)
(***************************************************************************)
NextHooks ==
  \/ \E hk \in Hooks : addEventHandler(hk) \/ removeEventHandler(hk)
  \/ \E n \in Names, h \in ConcHandlers :
       \/ RegBudget(MaxHookReg) /\ (On(Caller, n, h) \/ Once(Caller, n, h))
       \/ RemoveListener(Caller, n, h)
  \/ AddHook(Caller) \/ AddCommit(Caller) \/ RemHook(Caller) \/ RemCommit(Caller)

SpecHooks == InitSeq /\ [][NextHooks]_vars

(***************************************************************************)
(* The emitter used by one caller for On, Once, RemoveListener and         *)
(* ListenerCount only; the calls committed on each name are recorded.      *)
(***************************************************************************)
RECURSIVE TotalLen(_, _)
TotalLen(cs, keys) ==
  IF keys = {} THEN 0
  ELSE LET key == CHOOSE x \in keys : TRUE
       IN Len(cs[key]) + TotalLen(cs, keys \ {key})

\* calls recorded or under way, against the bound of the model
CallBudget ==
  TotalLen(calls, Names)
    + (IF th[Caller].pc \in {"add_lock", "rem_lock"} THEN 1 ELSE 0) < MaxCalls

RecordedAddCommit(t) ==
  /\ AddCommitCore(t)
  /\ calls' = [calls EXCEPT ![th[t].name] =
                 Append(@, [op |-> "add", h |-> th[t].h, once |-> th[t].once])]

RecordedRemCommit(t) ==
  /\ RemCommitCore(t)
  /\ calls' = [calls EXCEPT ![th[t].name] =
                 Append(@, [op |-> "remove", h |-> th[t].h, once |-> FALSE])]

NextCount ==
  \/ \E n \in Names, h \in Handlers :
       \/ CallBudget /\ (On(Caller, n, h) \/ Once(Caller, n, h))
       \/ CallBudget /\ RemoveListener(Caller, n, h)
  \/ \E n \in Names : ListenerCount(Caller, n)
  \/ RecordedAddCommit(Caller) \/ RecordedRemCommit(Caller) \/ CountCommit(Caller)

SpecCount == InitSeq /\ [][NextCount]_vars

(***************************************************************************)
(* Properties.                                                             *)
(***************************************************************************)
LockPcs == {"add_lock", "rem_lock", "count_lock", "emit_lock"}

\* the durable handlers of a registration, then its one-shot handlers
Dispatch(reg) == reg.on \o reg.once

Dispatching(t) == th[t].pc \in {"emit_on", "emit_once"}

\* the registrations a log of invocations names, in the order invoked
Entries(log) == [j \in 1..Len(log) |-> [h |-> log[j].h, reg |-> log[j].reg]]

IsPrefix(a, b) == Len(a) <= Len(b) /\ a = SubSeq(b, 1, Len(a))

\* C1: a handler registered with Once is invoked at most once in total, over
\* every interleaving of Emit calls by concurrent callers, also when a
\* handler of the event fails: no one-shot registration is invoked twice.
OnceInvokedAtMostOnce == again = {}

\* C10: an Emit is atomic with respect to the registration state. While a
\* caller dispatches it holds the mutex, the registration map is the one it
\* found when it took the lock, what it has invoked is a prefix of the
\* handlers registered then (all of them when the second loop has ended),
\* and no other caller gets past its Lock, be it in On, Once,
\* RemoveListener, ListenerCount or Emit.
EmitHoldsRegistrations ==
  \A t \in Threads : Dispatching(t) =>
    /\ mutex = t
    /\ events = th[t].snap
    /\ IsPrefix(Entries(th[t].log), Dispatch(th[t].snap[th[t].name]))
    /\ (th[t].pc = "emit_once" /\ th[t].i > Len(th[t].rng))
         => Entries(th[t].log) = Dispatch(th[t].snap[th[t].name])

NoOtherCallerPassesLock ==
  \A t \in Threads : \A u \in Threads \ {t} :
    (Dispatching(t) /\ th[u].pc \in LockPcs) => th'[u].pc = th[u].pc

EmitIsAtomic == []EmitHoldsRegistrations /\ [][NoOtherCallerPassesLock]_vars

\* C10 witness: a caller is between two handler invocations of its Emit
\* while another caller waits in RemoveListener for a handler of that event
\* that the Emit has not reached yet.
EmitIsAtomicWitness ==
  \E t \in Threads : \E u \in Threads \ {t} :
    /\ th[t].pc = "emit_on" /\ th[t].i = 2 /\ Len(th[t].rng) = 2
    /\ th[u].pc = "rem_lock" /\ th[u].name = th[t].name
    /\ Pointer(th[u].h) = Pointer(th[t].rng[2].h)

(***************************************************************************)
(* Properties of the emitter used by one caller (SpecSeq, SpecOrder).      *)
(***************************************************************************)
\* the caller's last call was op and has returned or panicked
Finished(op) ==
  th[Caller].pc = "idle" /\ th[Caller].op = op /\ th[Caller].res # "none"

Range(seq) == {seq[j] : j \in 1..Len(seq)}

\* registration numbers grow along the sequence
Increasing(seq) == \A j \in 1..(Len(seq) - 1) : seq[j].reg < seq[j + 1].reg

\* the entries of a sequence that RemoveListener's comparison matches
Matching(seq, h) == {j \in 1..Len(seq) : Pointer(seq[j].h) = Pointer(h)}

\* C2: ListenerCount(name) returns the number of durable plus one-shot
\* handlers registered for name, whatever is registered under other names.
ListenerCountOfName ==
  Finished("count") => th[Caller].ret = RegLen(events, th[Caller].name)

\* C3: the durable and the one-shot sequence of every name hold the
\* surviving handlers in the order they were registered, also after
\* removals; an Emit invokes the durable handlers and then the one-shot
\* handlers in that order (all of them when it returns, the first ones of
\* them when a handler has stopped it).
DispatchInRegistrationOrder ==
  /\ \A n \in Names : Increasing(events[n].on) /\ Increasing(events[n].once)
  /\ (Finished("emit") /\ th[Caller].snap[th[Caller].name].ok) =>
       LET c == th[Caller]
           reg == c.snap[c.name]
       IN /\ IsPrefix(Entries(c.log), reg.on \o reg.once)
          /\ c.res = "ok" => Entries(c.log) = reg.on \o reg.once

\* C3 witness: an Emit has returned after invoking the first and the third
\* registration, both durable, the second one having been removed.
DispatchInRegistrationOrderWitness ==
  /\ Finished("emit") /\ th[Caller].res = "ok"
  /\ Len(th[Caller].log) = 2
  /\ th[Caller].log[1].reg = 1 /\ th[Caller].log[2].reg = 3
  /\ Len(th[Caller].snap[th[Caller].name].on) = 2

\* C4: when RemoveListener(name, h) has returned, no entry of name's
\* durable or one-shot sequence has h's identity (its Pointer()), the
\* entries of another identity are all still there, no other name has
\* changed and no entry was created; when no entry of name had h's identity
\* (a second removal, a handler or a name never registered) the whole
\* registration map is unchanged.
RemoveListenerRemoves ==
  Finished("remove") =>
    LET c == th[Caller]
        was == c.snap[c.name]
        now == events[c.name]
    IN /\ c.res = "ok"
       /\ Matching(now.on, c.h) = {} /\ Matching(now.once, c.h) = {}
       /\ Len(now.on) = Len(was.on) - Cardinality(Matching(was.on, c.h))
       /\ Len(now.once) = Len(was.once) - Cardinality(Matching(was.once, c.h))
       /\ Range(now.on) \subseteq Range(was.on)
       /\ Range(now.once) \subseteq Range(was.once)
       /\ now.ok = was.ok
       /\ \A m \in Names \ {c.name} : events[m] = c.snap[m]
       /\ (Matching(was.on, c.h) = {} /\ Matching(was.once, c.h) = {}) => events = c.snap

\* C4 witness: a RemoveListener has returned that found its handler's
\* identity both in the durable and in the one-shot sequence.
RemoveListenerRemovesWitness ==
  /\ Finished("remove")
  /\ Matching(th[Caller].snap[th[Caller].name].on, th[Caller].h) # {}
  /\ Matching(th[Caller].snap[th[Caller].name].once, th[Caller].h) # {}

\* C6: whenever an Emit has found registrations for its name, the one-shot
\* sequence of that name is empty once the Emit has ended, by returning or
\* by the failure of a handler.
OneShotEmptyAfterEmit ==
  (Finished("emit") /\ th[Caller].snap[th[Caller].name].ok)
    => events[th[Caller].name].once = <<>>

\* C7: an Emit for a name without registration entry invokes no handler and
\* leaves the registration map as it found it; no step but the append of On
\* and Once changes which names have an entry.
EmitUnknownNameNoOp ==
  (Finished("emit") /\ ~th[Caller].snap[th[Caller].name].ok) =>
    /\ th[Caller].log = <<>>
    /\ th[Caller].res = "ok"
    /\ events = th[Caller].snap

NamesChangeOnlyInAddEvent ==
  (\E n \in Names : events'[n].ok # events[n].ok) =>
    (th[Caller].op = "add" /\ th[Caller].pc = "add_lock")

EmitUnknownIsNoOp == []EmitUnknownNameNoOp /\ [][NamesChangeOnlyInAddEvent]_vars

\* C7 witness: an Emit with arguments has returned for a name without
\* entry while handlers are registered under another name.
EmitUnknownIsNoOpWitness ==
  /\ Finished("emit") /\ th[Caller].k > 0
  /\ ~events[th[Caller].name].ok
  /\ \E m \in Names : RegLen(events, m) = 2

\* C8: in every Emit(name, a1..ak), every handler of name of declared arity
\* N <= k is invoked exactly once, with a1..aN (stated for the Emits in
\* which no handler body fails).
FittingHandlersInvokedOnce ==
  (Finished("emit") /\ th[Caller].res \in {"ok", "panic_args"}) =>
    LET c == th[Caller]
        all == Dispatch(c.snap[c.name])
    IN \A j \in 1..Len(all) :
         NumIn(all[j].h) <= c.k =>
           /\ Cardinality({x \in 1..Len(c.log) : c.log[x].reg = all[j].reg}) = 1
           /\ \A x \in 1..Len(c.log) :
                c.log[x].reg = all[j].reg
                  => c.log[x].args = [a \in 1..NumIn(all[j].h) |-> a]

(***************************************************************************)
(* Properties of the hooks (SpecHooks).                                    *)
(***************************************************************************)
\* every hook of the list called once, in order, with (name, handler)
HookCalls(hooks, n, h) == [j \in 1..Len(hooks) |-> <<hooks[j], n, h>>]

\* the hook list an operation walks
Installed(op) == IF op = "add" THEN addEventHandlers ELSE removeEventHandlers

\* C9: an On/Once call walks the add-hooks, and a RemoveListener call the
\* remove-hooks, that are installed when the call is made: each is called
\* once with the call's (name, handler), in the order of installation, and
\* the call reaches its Lock, before which it changes no registration, only
\* when all of them have been called, whether or not the handler or the
\* name is registered.
HooksCalledInOrder ==
  LET c == th[Caller] IN
  /\ c.pc \in {"add_hooks", "rem_hooks"} =>
       /\ c.i <= Len(c.hooks)
       /\ c.log = SubSeq(HookCalls(c.hooks, c.name, c.h), 1, c.i - 1)
  /\ (c.pc \in {"add_lock", "rem_lock"} \/ Finished("add") \/ Finished("remove")) =>
       c.log = HookCalls(c.hooks, c.name, c.h)

HooksReadAtCall ==
  (th[Caller].pc = "idle" /\ th'[Caller].pc # "idle") =>
    th'[Caller].hooks = Installed(th'[Caller].op)

RegistrationsChangeUnderLock ==
  events' # events => th[Caller].pc \in {"add_lock", "rem_lock"}

HooksRunFirst ==
  /\ []HooksCalledInOrder
  /\ [][HooksReadAtCall /\ RegistrationsChangeUnderLock]_vars

\* C9 witness: a RemoveListener for a name that has no entry has returned
\* after calling two different remove-hooks.
HooksRunFirstWitness ==
  /\ Finished("remove")
  /\ ~events[th[Caller].name].ok
  /\ Len(th[Caller].log) = 2
  /\ th[Caller].log[1][1] # th[Caller].log[2][1]

(***************************************************************************)
(* Properties of the listener count (SpecCount).                           *)
(***************************************************************************)
\* the registrations among the calls on one name
Adds(cs) == {j \in 1..Len(cs) : cs[j].op = "add"}

\* those of them a later RemoveListener on that name matches
MatchedAdds(cs) ==
  {j \in Adds(cs) : \E x \in (j + 1)..Len(cs) :
     cs[x].op = "remove" /\ Pointer(cs[x].h) = Pointer(cs[j].h)}

Net(cs) == Cardinality(Adds(cs)) - Cardinality(MatchedAdds(cs))

RECURSIVE NetOver(_, _)
NetOver(cs, keys) ==
  IF keys = {} THEN 0
  ELSE LET key == CHOOSE x \in keys : TRUE
       IN Net(cs[key]) + NetOver(cs, keys \ {key})

\* C5: after any sequence of On/Once/RemoveListener calls without Emit the
\* listener count reported is the number of registrations performed minus
\* the number of them matched (same name, same handler identity) by a later
\* RemoveListener. It is computed here from the calls on each single name,
\* in their order on that name, so it is the same for every interleaving of
\* the calls on different names; each name's own registration likewise
\* depends on the calls on that name only.
CountIsNetRegistrations ==
  /\ Finished("count") => th[Caller].ret = NetOver(calls, Names)
  /\ th[Caller].pc = "idle" => \A n \in Names : RegLen(events, n) = Net(calls[n])

\* C5 witness: ListenerCount has returned 1 after calls on both names, one
\* of them a RemoveListener that matched a registration.
CountIsNetRegistrationsWitness ==
  /\ Finished("count") /\ th[Caller].ret = 1
  /\ \A n \in Names : calls[n] # <<>>
  /\ \E n \in Names : MatchedAdds(calls[n]) # {}

(***************************************************************************)
(* The installer and Run (lines 144-278).  One goroutine calls Install and *)
(* Run one after the other; every step that can return an error either     *)
(* succeeds or fails.                                                       *)
(***************************************************************************)
\* Install/Run calls made in one behaviour
MaxAttempts == 3

OtherVars == <<emitterVars, httpVars, nextId, pending, cl, wire, pipe, registry, delivered, logged, issued>>

\* Install (line 240) and Run (line 249) begin with installPlaywright.  A Run
\* has its own cmd and connection.
Call(op) ==
  /\ host.pc = "idle"
  /\ attempts < MaxAttempts
  /\ attempts' = attempts + 1
  /\ host' = [Outside EXCEPT !.pc = "getwd", !.op = op]
  /\ proc' = "none"
  /\ conn' = "none"
  /\ loop' = "none"
  /\ UNCHANGED <<disk, goos, OtherVars>>

Install == Call("install")

Run == Call("run")

\* `return "", fmt.Errorf(...)` of installPlaywright, wrapped and returned by
\* Install (line 242) or Run (line 251); the error returns of Run itself.
Fails(at) == [host EXCEPT !.pc = "idle", !.failed = at, !.ret = "err"]

Goes(pc) == [host EXCEPT !.pc = pc]

\* Lines 161, 172-174.
Getwd ==
  /\ host.pc = "getwd"
  /\ host' \in {Goes("stat_folder"), Fails("getwd")}
  /\ UNCHANGED <<disk, goos, proc, attempts, conn, loop, OtherVars>>

\* Lines 175-180: the folder is made when it does not exist.
Mkdir ==
  /\ host.pc = "stat_folder"
  /\ \/ /\ disk.folder
        /\ host' = Goes("stat_driver")
        /\ UNCHANGED disk
     \/ /\ ~disk.folder
        /\ \/ host' = Goes("stat_driver") /\ disk' = [disk EXCEPT !.folder = TRUE]
           \/ host' = Fails("mkdir") /\ UNCHANGED disk
  /\ UNCHANGED <<goos, proc, attempts, conn, loop, OtherVars>>

\* Line 182: os.Stat(driverPath) returns no error, whatever the file holds.
DriverFound == disk.driver # "absent"

\* Lines 181-185: a driver file that exists ends installPlaywright.
StatDriver ==
  /\ host.pc = "stat_driver"
  /\ host' = IF DriverFound THEN [host EXCEPT !.pc = "installed", !.installed = TRUE]
                            ELSE Goes("download")
  /\ UNCHANGED <<disk, goos, proc, attempts, conn, loop, OtherVars>>

\* Lines 186-192: the request fails, the status is not 200, or the body is there.
Download ==
  /\ host.pc = "download"
  /\ host' \in {Goes("create"), Fails("download")}
  /\ UNCHANGED <<disk, goos, proc, attempts, conn, loop, OtherVars>>

\* Lines 193-196: os.Create makes the empty file.
Create ==
  /\ host.pc = "create"
  /\ \/ host' = Goes("copy") /\ disk' = [disk EXCEPT !.driver = "partial"]
     \/ host' = Fails("create") /\ UNCHANGED disk
  /\ UNCHANGED <<goos, proc, attempts, conn, loop, OtherVars>>

\* Lines 197-199: io.Copy writes the whole body or stops part-way.
Copy ==
  /\ host.pc = "copy"
  /\ \/ host' = Goes("close") /\ disk' = [disk EXCEPT !.driver = "complete"]
     \/ host' = Fails("copy") /\ UNCHANGED disk
  /\ UNCHANGED <<goos, proc, attempts, conn, loop, OtherVars>>

\* Lines 200-202.
Close ==
  /\ host.pc = "close"
  /\ host' \in {Goes("chmod"), Fails("close")}
  /\ UNCHANGED <<disk, goos, proc, attempts, conn, loop, OtherVars>>

\* Lines 204-212: the executable bit, except on windows.
Chmod ==
  /\ host.pc = "chmod"
  /\ \/ /\ goos = "windows"
        /\ host' = Goes("browsers")
        /\ UNCHANGED disk
     \/ /\ goos # "windows"
        /\ \/ host' = Goes("browsers") /\ disk' = [disk EXCEPT !.exec = TRUE]
           \/ host' = Fails("chmod") /\ UNCHANGED disk
  /\ UNCHANGED <<goos, proc, attempts, conn, loop, OtherVars>>

\* Whether exec can start the driver file.
Runnable == disk.driver = "complete" /\ (goos = "windows" \/ disk.exec)

\* Lines 215-220 and 223-234: `driver --install` starts and exits with or
\* without error; then installPlaywright returns the path.
installBrowsers ==
  /\ host.pc = "browsers"
  /\ \/ /\ Runnable
        /\ host' = [host EXCEPT !.pc = "installed", !.installed = TRUE]
        /\ disk' = [disk EXCEPT !.browsers = TRUE]
     \/ host' = Fails("browsers") /\ UNCHANGED disk
  /\ UNCHANGED <<goos, proc, attempts, conn, loop, OtherVars>>

\* Lines 241-244: Install returns nil.
InstallReturn ==
  /\ host.pc = "installed"
  /\ host.op = "install"
  /\ host' = [host EXCEPT !.pc = "idle", !.ret = "ok"]
  /\ UNCHANGED <<disk, goos, proc, attempts, conn, loop, OtherVars>>

\* Lines 254-259.
StdinPipe ==
  /\ host.pc = "installed"
  /\ host.op = "run"
  /\ host' \in {Goes("stdout"), Fails("stdin")}
  /\ UNCHANGED <<disk, goos, proc, attempts, conn, loop, OtherVars>>

\* Lines 260-263.
StdoutPipe ==
  /\ host.pc = "stdout"
  /\ host' \in {Goes("start"), Fails("stdout")}
  /\ UNCHANGED <<disk, goos, proc, attempts, conn, loop, OtherVars>>

\* Lines 264-266: cmd.Start().
cmdStart ==
  /\ host.pc = "start"
  /\ \/ /\ Runnable
        /\ host' = Goes("connect")
        /\ proc' = "running"
     \/ host' = Fails("start") /\ UNCHANGED proc
  /\ UNCHANGED <<disk, goos, attempts, conn, loop, OtherVars>>

\* A Run that would build the Connection before the process is started.
newConnectionEarly ==
  /\ host.pc = "start"
  /\ conn = "none"
  /\ conn' = "created"
  /\ UNCHANGED <<host, disk, goos, proc, attempts, loop, OtherVars>>

\* Line 267.
newConnection ==
  /\ host.pc = "connect"
  /\ host' = Goes("go")
  /\ conn' = "created"
  /\ UNCHANGED <<disk, goos, proc, attempts, loop, OtherVars>>

\* Lines 268-272: the goroutine of connection.Start() is launched.
goStart ==
  /\ host.pc = "go"
  /\ host' = Goes("handshake")
  /\ loop' = "active"
  /\ conn' = "running"
  /\ UNCHANGED <<disk, goos, proc, attempts, OtherVars>>

\* Line 273: the call returns the root object or an error.
CallOnObjectWithKnownName ==
  /\ host.pc = "handshake"
  /\ \E r \in {"ok", "err"} : host' = [host EXCEPT !.pc = "answered", !.handshake = r]
  /\ UNCHANGED <<disk, goos, proc, attempts, conn, loop, OtherVars>>

\* Lines 274-277: Run returns the error, and nothing else, or the object.
RunReturn ==
  /\ host.pc = "answered"
  /\ host' = IF host.handshake = "ok" THEN [host EXCEPT !.pc = "idle", !.ret = "ok"]
                                      ELSE Fails("handshake")
  /\ UNCHANGED <<disk, goos, proc, attempts, conn, loop, OtherVars>>

\* Lines 269-271: connection.Start() returns its error and log.Fatalf ends
\* the host process, wherever Run is.
Fatalf ==
  /\ loop = "active"
  /\ host.pc # "idle" \/ host.ret = "ok"
  /\ loop' = "ended"
  /\ conn' = "closed"
  /\ host' = [host EXCEPT !.pc = "exited"]
  /\ UNCHANGED <<disk, goos, proc, attempts, OtherVars>>

InitRun == Fresh /\ keep = FALSE /\ ConnIdle("none") /\ HttpIdle
           /\ \E os \in {"linux", "windows"} : DriverIdle(os)

NextRun ==
  \/ Install \/ Run
  \/ Getwd \/ Mkdir \/ StatDriver \/ Download \/ Create \/ Copy \/ Close \/ Chmod
  \/ installBrowsers \/ InstallReturn
  \/ StdinPipe \/ StdoutPipe \/ cmdStart \/ newConnection \/ goStart
  \/ CallOnObjectWithKnownName \/ RunReturn \/ Fatalf

SpecRun == InitRun /\ [][NextRun]_vars

(***************************************************************************)
(* Properties of the installer and Run (SpecRun).                          *)
(***************************************************************************)
RunFails == {"getwd", "mkdir", "download", "create", "copy", "close", "chmod", "browsers",
             "stdin", "stdout", "start"}

\* C11: whenever installPlaywright has returned without error, in Install or
\* in Run, after any earlier attempts, the cache folder holds the complete
\* driver file, executable where the system has an executable bit, and the
\* browser installation has succeeded in this or an earlier attempt.
InstallLeavesDriverAndBrowsers ==
  host.installed =>
    /\ disk.folder
    /\ disk.driver = "complete"
    /\ goos # "windows" => disk.exec
    /\ disk.browsers

\* C12: in a Run the child process exists only after installPlaywright
\* returned without error, the Connection only once the process is started,
\* the read loop only once the Connection is constructed, and the handshake
\* is awaited only once the read loop is launched; a Run that returned the
\* root object had a successful handshake; a Run that returned the error of
\* the install step, of a pipe or of cmd.Start has no Connection and no read loop.
RunStartsInOrder ==
  /\ proc # "none" => host.op = "run" /\ host.installed
  /\ conn # "none" => proc # "none"
  /\ loop # "none" => conn # "none"
  /\ (host.pc \in {"handshake", "answered"} \/ host.handshake # "none") => loop # "none"
  /\ (host.op = "run" /\ host.ret = "ok") => host.handshake = "ok"
  /\ (host.op = "run" /\ host.ret = "err" /\ host.failed \in RunFails) =>
       conn = "none" /\ loop = "none" /\ proc = "none"
  /\ (host.op = "run" /\ host.ret = "err") => host.failed \in RunFails \cup {"handshake"}

\* C12 witness: a Run has returned the root object: its process runs, its
\* Connection is running and its read loop is active.
RunStartsInOrderWitness ==
  /\ host.op = "run" /\ host.pc = "idle" /\ host.ret = "ok"
  /\ proc = "running" /\ conn = "running" /\ loop = "active"

\* C19: when Run has returned an error, the child process it started is not
\* running and its read loop is not active.
RunErrorLeavesNothing ==
  (host.op = "run" /\ host.pc = "idle" /\ host.ret = "err") =>
    proc # "running" /\ loop # "active"

(***************************************************************************)
(* RequestContent (lines 280-318), called by concurrent goroutines with    *)
(* one *http.Client.  CheckRedirect is "original" (what the owner of the   *)
(* client set, nil included) or "ignore" (the func literal of line 308).   *)
(***************************************************************************)
\* RequestContent calls made by one goroutine in one behaviour
MaxRequests == 2

NotHttp == <<emitterVars, driverVars, connVars>>

\* Lines 289-302: the request is built; options.IgnoreRedirect picks the branch.
RequestContent(q, ignore) ==
  /\ rq[q].pc = "idle"
  /\ rq[q].calls < MaxRequests
  /\ rq' = [rq EXCEPT ![q] = [NoRequest EXCEPT !.pc = IF ignore THEN "save" ELSE "do",
                                               !.IgnoreRedirect = ignore,
                                               !.calls = rq[q].calls + 1]]
  /\ UNCHANGED <<client, NotHttp>>

\* Line 303: client.Do(req) follows redirects under the CheckRedirect it
\* finds in the client, and RequestContent returns.
DoPlain(q) ==
  /\ rq[q].pc = "do"
  /\ rq' = [rq EXCEPT ![q] = [@ EXCEPT !.pc = "idle", !.ran = client]]
  /\ UNCHANGED <<client, NotHttp>>

\* Line 307: originalRedirect := client.CheckRedirect
SaveRedirect(q) ==
  /\ rq[q].pc = "save"
  /\ rq' = [rq EXCEPT ![q] = [@ EXCEPT !.pc = "set", !.originalRedirect = client]]
  /\ UNCHANGED <<client, NotHttp>>

\* Lines 308-310: client.CheckRedirect = func ... http.ErrUseLastResponse
SetRedirect(q) ==
  /\ rq[q].pc = "set"
  /\ client' = "ignore"
  /\ rq' = [rq EXCEPT ![q] = [@ EXCEPT !.pc = "do_ignore"]]
  /\ UNCHANGED NotHttp

\* Line 312: res, err := client.Do(req)
DoIgnore(q) ==
  /\ rq[q].pc = "do_ignore"
  /\ rq' = [rq EXCEPT ![q] = [@ EXCEPT !.pc = "restore", !.ran = client]]
  /\ UNCHANGED <<client, NotHttp>>

\* Lines 314-316: client.CheckRedirect = originalRedirect; return res, err
RestoreRedirect(q) ==
  /\ rq[q].pc = "restore"
  /\ client' = rq[q].originalRedirect
  /\ rq' = [rq EXCEPT ![q] = [@ EXCEPT !.pc = "idle"]]
  /\ UNCHANGED NotHttp

InitHttp == Fresh /\ keep = FALSE /\ DriverIdle("linux") /\ ConnIdle("none") /\ HttpIdle

NextHttp ==
  \/ \E q \in Requesters, ignore \in BOOLEAN : RequestContent(q, ignore)
  \/ \E q \in Requesters :
       \/ DoPlain(q) \/ SaveRedirect(q) \/ SetRedirect(q) \/ DoIgnore(q) \/ RestoreRedirect(q)

SpecHttp == InitHttp /\ [][NextHttp]_vars

\* C20: once every RequestContent call has returned, the client's
\* CheckRedirect is the one it had before the first call, and a call made
\* with IgnoreRedirect = false has never run under the ignore-redirect policy.
RedirectPolicyKept ==
  /\ (\A q \in Requesters : rq[q].pc = "idle") => client = "original"
  /\ \A q \in Requesters :
       (~rq[q].IgnoreRedirect /\ rq[q].ran # "none") => rq[q].ran = "original"

(***************************************************************************)
(* Arity at dispatch (SpecOrder).                                          *)
(***************************************************************************)
\* the places in a dispatch order whose handler declares more parameters
\* than an Emit with k arguments supplies
Misfits(all, k) == {j \in 1..Len(all) : NumIn(all[j].h) > k}

First(S) == CHOOSE j \in S : \A i \in S : j <= i

\* C16: On and Once register a handler of any arity; an Emit with fewer
\* arguments than some registered handler declares does not return
\* normally, invokes neither that handler nor any handler after it in
\* dispatch order, and, when it fails at that handler, has invoked every
\* handler before it; an Emit fails on the arguments only in that case.
ArityFailsAtDispatch ==
  /\ Finished("add") =>
       LET c == th[Caller]
           seq == IF c.once THEN events[c.name].once ELSE events[c.name].on
           old == IF c.once THEN c.snap[c.name].once ELSE c.snap[c.name].on
       IN Len(seq) = Len(old) + 1 /\ seq[Len(seq)].h = c.h
  /\ (Finished("emit") /\ th[Caller].snap[th[Caller].name].ok) =>
       LET c == th[Caller]
           all == Dispatch(c.snap[c.name])
           bad == Misfits(all, c.k)
       IN IF bad = {}
          THEN c.res # "panic_args"
          ELSE /\ c.res \in {"panic_args", "panic_body"}
               /\ IsPrefix(Entries(c.log), SubSeq(all, 1, First(bad) - 1))
               /\ c.res = "panic_args" => Entries(c.log) = SubSeq(all, 1, First(bad) - 1)

\* C16 witness: an Emit has failed at the second of three registered
\* handlers, after invoking the first.
ArityFailsAtDispatchWitness ==
  /\ Finished("emit") /\ th[Caller].res = "panic_args"
  /\ Len(th[Caller].log) = 1
  /\ Len(Dispatch(th[Caller].snap[th[Caller].name])) = 3
  /\ NumIn(Dispatch(th[Caller].snap[th[Caller].name])[3].h) <= th[Caller].k

(***************************************************************************)
(* The emitter used by one caller with hooks installed and events emitted. *)
(***************************************************************************)
\* registrations performed in one behaviour with hooks installed and emissions
MaxFrameReg == 2
\* hooks installed per hook list in such a behaviour
MaxFrameHooks == 1

NextFrame ==
  \/ Len(addEventHandlers) < MaxFrameHooks /\ addEventHandler("k1")
  \/ Len(removeEventHandlers) < MaxFrameHooks /\ removeEventHandler("k2")
  \/ \E n \in Names, h \in ConcHandlers :
       \/ RegBudget(MaxFrameReg) /\ (On(Caller, n, h) \/ Once(Caller, n, h))
       \/ RemoveListener(Caller, n, h)
  \/ \E n \in Names, k \in 0..MaxConcArgs : Emit(Caller, n, k)
  \/ AddHook(Caller) \/ AddCommit(Caller) \/ RemHook(Caller) \/ RemCommit(Caller)
  \/ EmitNoEntry(Caller) \/ EmitLock(Caller) \/ EmitOnCall(Caller) \/ EmitOnDone(Caller)
  \/ EmitOnceCall(Caller) \/ EmitClear(Caller)

SpecFrame == InitSeq /\ [][NextFrame]_vars

EmitPcs == {"emit_lock", "emit_on", "emit_once"}

\* a step of the caller's Emit leaves every durable sequence, the set of
\* names with an entry, the one-shot sequences of the other names and both
\* hook lists as they are
EmitStepKeeps ==
  (th[Caller].pc \in EmitPcs /\ th' # th) =>
    /\ \A n \in Names :
         /\ events'[n].ok = events[n].ok
         /\ events'[n].on = events[n].on
         /\ n # th[Caller].name => events'[n].once = events[n].once
    /\ addEventHandlers' = addEventHandlers
    /\ removeEventHandlers' = removeEventHandlers

\* a durable handler leaves its sequence only in a RemoveListener of its name
DurableLeavesInRemove ==
  \A n \in Names :
    ~(Range(events[n].on) \subseteq Range(events'[n].on))
      => th[Caller].pc = "rem_lock" /\ th[Caller].name = n

\* an Emit that has ended, normally or not, has left all of that as it found it
EmitKept ==
  Finished("emit") =>
    \A n \in Names :
      /\ events[n].ok = th[Caller].snap[n].ok
      /\ events[n].on = th[Caller].snap[n].on
      /\ n # th[Caller].name => events[n].once = th[Caller].snap[n].once

\* C18: Emit(name, ...) changes nothing but the one-shot sequence of name:
\* every durable sequence, the one-shot sequences of the other names, the
\* names that have an entry and both hook lists are after the Emit what they
\* were before it, and a durable handler is lost only to a RemoveListener.
EmitChangesOnlyOneShot ==
  []EmitKept /\ [][EmitStepKeeps]_vars /\ [][DurableLeavesInRemove]_vars

\* C18 witness: with a hook in each list, an Emit has invoked a durable and a
\* one-shot handler of its name and has returned; the one-shot sequence is
\* empty and the durable handler is still registered.
EmitChangesOnlyOneShotWitness ==
  /\ Finished("emit") /\ th[Caller].res = "ok"
  /\ Len(th[Caller].log) = 2
  /\ Len(th[Caller].snap[th[Caller].name].once) = 1
  /\ events[th[Caller].name].once = <<>>
  /\ Len(events[th[Caller].name].on) = 1
  /\ addEventHandlers # <<>> /\ removeEventHandlers # <<>>

(***************************************************************************)
(* Handlers that call the emitter that is dispatching them.                *)
(***************************************************************************)
\* registrations performed in one behaviour with such handlers
MaxReReg == 2

\* Lines 35-36 and 39-40 for such a handler: it is called and runs up to its
\* call of the emitter.
HandlerEnters(t) ==
  /\ th[t].pc \in {"emit_on", "emit_once"}
  /\ th[t].i <= Len(th[t].rng)
  /\ LET c == th[t]
         r == c.rng[c.i].reg
     IN /\ Reentrant(c.rng[c.i].h)
        /\ ~ArityPanics(c.k, c.rng[c.i].h)
        /\ th' = [th EXCEPT ![t] = [c EXCEPT !.log = Append(c.log, Invocation(c)),
                                             !.pc = IF c.pc = "emit_on" THEN "in_on" ELSE "in_once"]]
        /\ fired' = IF c.pc = "emit_once" THEN fired \cup {r} ELSE fired
        /\ again' = IF c.pc = "emit_once" /\ r \in fired THEN again \cup {r} ELSE again
  /\ UNCHANGED <<events, addEventHandlers, removeEventHandlers, mutex, nextReg, calls, keep, driverVars, connVars, httpVars>>

\* What the handler's own call does once it holds the mutex (lines 106-118,
\* 65-90, 94-99, 22-43), up to its Unlock.
Inner(ev, n, h, r) ==
  CASE InnerCall(h) = "On" -> Registered(ev, n, h, FALSE, r)
    [] InnerCall(h) = "Once" -> Registered(ev, n, h, TRUE, r)
    [] InnerCall(h) = "RemoveListener" -> Removed(ev, n, h)
    [] OTHER -> ev

\* The handler's call of the emitter returns, and then the handler: a call
\* that locks (lines 22, 65, 94, 106) needs the mutex; addEventHandler
\* (lines 53-55) does not.
HandlerReturns(t) ==
  /\ th[t].pc \in {"in_on", "in_once"}
  /\ LET c == th[t]
         h == c.rng[c.i].h
     IN /\ IF Locks(h)
           THEN /\ CanLock(t)
                /\ events' = Inner(events, c.name, h, nextReg)
                /\ nextReg' = IF InnerCall(h) \in {"On", "Once"} THEN nextReg + 1 ELSE nextReg
                /\ mutex' = NoThread
                /\ UNCHANGED addEventHandlers
           ELSE /\ addEventHandlers' = IF Len(addEventHandlers) < MaxHooks
                                       THEN Append(addEventHandlers, "k1")
                                       ELSE addEventHandlers
                /\ UNCHANGED <<events, nextReg, mutex>>
        /\ th' = [th EXCEPT ![t] = [c EXCEPT !.i = c.i + 1,
                                             !.pc = IF c.pc = "in_on" THEN "emit_on" ELSE "emit_once"]]
  /\ UNCHANGED <<removeEventHandlers, fired, again, calls, keep, driverVars, connVars, httpVars>>

NextReentrant ==
  \/ \E t \in Threads, h \in ReHandlers :
       \/ RegBudget(MaxReReg) /\ (On(t, OneName, h) \/ Once(t, OneName, h))
       \/ RemoveListener(t, OneName, h)
  \/ \E t \in Threads : ListenerCount(t, OneName) \/ Emit(t, OneName, 1)
  \/ \E t \in Threads :
       \/ AddHook(t) \/ AddCommit(t) \/ RemCommit(t) \/ CountCommit(t)
       \/ EmitNoEntry(t) \/ EmitLock(t) \/ EmitOnDone(t) \/ EmitClear(t)
       \/ HandlerEnters(t) \/ HandlerReturns(t)

SpecReentrant == Init /\ [][NextReentrant]_vars

\* goroutine t is inside a handler, at that handler's call of an operation
\* of the emitter that locks
Stuck(t) ==
  /\ th[t].pc \in {"in_on", "in_once"}
  /\ Locks(th[t].rng[th[t].i].h)

\* the dispatching goroutine holds the mutex while its handler calls
StuckHoldsMutex == \A t \in Threads : Stuck(t) => mutex = t

\* the handler's call never returns and the Emit never ends
StuckStays ==
  \A t \in Threads : Stuck(t) => (th'[t] = th[t] /\ mutex' = t)

\* no call of another goroutine, under way or made later, returns
OthersNeverReturn ==
  \A t \in Threads : \A u \in Threads \ {t} :
    (Stuck(t) /\ th[u].pc # "idle") => (th'[u].pc # "idle" /\ events' = events)

\* C17: a handler that, while Emit dispatches it, calls On, Once,
\* RemoveListener, ListenerCount or Emit on the same emitter never returns
\* from that call: the Emit holds the mutex and never ends, and no operation
\* of any other caller on that emitter returns from then on.
ReentrantHandlerBlocks ==
  []StuckHoldsMutex /\ [][StuckStays]_vars /\ [][OthersNeverReturn]_vars

\* C17 witness: one goroutine is inside such a handler while the other waits
\* at the Lock of the call it made.
ReentrantHandlerBlocksWitness ==
  \E t \in Threads : \E u \in Threads \ {t} :
    Stuck(t) /\ th[u].pc \in LockPcs

(***************************************************************************)
(* The Connection (spec 3, 4.2, 4.3, 5, 7): callers of sendCall, the read  *)
(* loop, the driver at the other end of the pipes, and close().            *)
(***************************************************************************)
\* request ids allocated in one behaviour
MaxIds == 3
\* inbound frames the pipe holds at a time
MaxPipe == 1

Payloads == {"p", "q"}

NotConn == <<emitterVars, httpVars, disk, goos, host, attempts>>

\* A Connection constructed over the pipes of a started driver process.
InitConn ==
  /\ Fresh /\ keep = FALSE /\ HttpIdle
  /\ disk = NoFile /\ goos = "linux" /\ host = Outside /\ attempts = 0
  /\ proc = "running"
  /\ ConnIdle("created")

\* start(): the read loop runs on its own execution context (Created -> Running).
start ==
  /\ conn = "created"
  /\ conn' = "running"
  /\ loop' = "active"
  /\ UNCHANGED <<nextId, pending, cl, wire, pipe, registry, delivered, logged, issued, proc, NotConn>>

With(f, k, v) == [i \in DOMAIN f \cup {k} |-> IF i = k THEN v ELSE f[i]]

Without(f, ks) == [i \in DOMAIN f \ ks |-> f[i]]

\* A counter that would hand out the same id again.
NextIdSame(n) == n

\* "allocates the next request id": the counter only grows.
NextIdAfter(n) == n + 1

\* sendCall, first part: on a closed Connection it fails at once; otherwise
\* it allocates the next id and records a Pending Call under it (one lock
\* guards the counter and the table).
sendCall(c) ==
  /\ cl[c].pc = "idle"
  /\ IF conn = "closed"
     THEN /\ cl' = [cl EXCEPT ![c] = [NoCall EXCEPT !.result = "connection closed"]]
          /\ UNCHANGED <<nextId, pending, issued>>
     ELSE /\ nextId <= MaxIds
          /\ nextId' = NextIdAfter(nextId)
          /\ pending' = With(pending, nextId, c)
          /\ issued' = With(issued, nextId, [by |-> c, sent |-> "none", completed |-> 0])
          /\ cl' = [cl EXCEPT ![c] = [NoCall EXCEPT !.pc = "write", !.id = nextId]]
  /\ UNCHANGED <<conn, loop, wire, pipe, registry, delivered, logged, proc, NotConn>>

\* sendCall, second part: the request frame is written under the outbound
\* write lock; nothing reaches a driver that is gone.
writeFrame(c) ==
  /\ cl[c].pc = "write"
  /\ wire' = IF conn = "closed" THEN wire ELSE wire \cup {cl[c].id}
  /\ cl' = [cl EXCEPT ![c] = [@ EXCEPT !.pc = "wait"]]
  /\ UNCHANGED <<conn, loop, nextId, pending, pipe, registry, delivered, logged, issued, proc, NotConn>>

\* sendCall, third part: the caller blocks until its Pending Call is
\* completed, and returns the payload or the failure.
await(c) ==
  /\ cl[c].pc = "wait"
  /\ cl[c].slot # "none"
  /\ cl' = [cl EXCEPT ![c] = [@ EXCEPT !.pc = "idle", !.result = cl[c].slot]]
  /\ UNCHANGED <<conn, loop, nextId, pending, wire, pipe, registry, delivered, logged, issued, proc, NotConn>>

ResponseFrame(id, p) == [kind |-> "response", id |-> id, guid |-> "none", payload |-> p]

\* The driver answers a request it has received, in any order, with a
\* success or a failure payload.
respond(id, p) ==
  /\ proc = "running"
  /\ id \in wire
  /\ Len(pipe) < MaxPipe
  /\ pipe' = Append(pipe, ResponseFrame(id, p))
  /\ wire' = wire \ {id}
  /\ issued' = [issued EXCEPT ![id] = [@ EXCEPT !.sent = p]]
  /\ UNCHANGED <<conn, loop, nextId, pending, cl, registry, delivered, logged, proc, NotConn>>

Reading == loop = "active" /\ pipe # <<>>

\* Completing a Pending Call takes it out of the table.
Completed(id) == Without(pending, {id})

\* The read loop reads a response frame: it completes exactly the Pending
\* Call of that id.
readResponse ==
  /\ Reading
  /\ Head(pipe).kind = "response"
  /\ Head(pipe).id \in DOMAIN pending
  /\ LET id == Head(pipe).id
     IN /\ cl' = [cl EXCEPT ![pending[id]] = [@ EXCEPT !.slot = Head(pipe).payload]]
        /\ pending' = Completed(id)
        /\ issued' = [issued EXCEPT ![id] = [@ EXCEPT !.completed = @ + 1]]
  /\ pipe' = Tail(pipe)
  /\ UNCHANGED <<conn, loop, nextId, wire, registry, delivered, logged, proc, NotConn>>

\* A teardown that would leave the outstanding callers waiting.
FailedNone(why) == cl

\* Every outstanding Pending Call is completed with the failure why.
Failed(why) ==
  [c \in Callers |->
     IF \E id \in DOMAIN pending : pending[id] = c
     THEN [cl[c] EXCEPT !.slot = why]
     ELSE cl[c]]

\* The Connection is torn down: the child process is killed, the read loop
\* ends, the outstanding calls fail.
Teardown(why) ==
  /\ conn' = "closed"
  /\ loop' = "ended"
  /\ proc' = "killed"
  /\ cl' = Failed(why)
  /\ issued' = [id \in DOMAIN issued |->
                  IF id \in DOMAIN pending
                  THEN [issued[id] EXCEPT !.completed = @ + 1]
                  ELSE issued[id]]
  /\ pending' = <<>>

\* close(): tears a running Connection down; on a closed one it does nothing.
close ==
  /\ conn \in {"running", "closed"}
  /\ IF conn = "running"
     THEN Teardown("connection closed")
     ELSE UNCHANGED <<conn, loop, proc, cl, issued, pending>>
  /\ UNCHANGED <<nextId, wire, pipe, registry, delivered, logged, NotConn>>

\* The inbound stream closes or a read fails: fatal to the Connection.
readError ==
  /\ loop = "active"
  /\ Teardown("connection closed")
  /\ UNCHANGED <<nextId, wire, pipe, registry, delivered, logged, NotConn>>

NextCalls ==
  \/ start \/ close \/ readError \/ readResponse
  \/ \E c \in Callers : sendCall(c) \/ writeFrame(c) \/ await(c)
  \/ \E id \in 1..MaxIds, p \in Payloads : respond(id, p)

\* Every caller runs when it can.
CallersRun == \A c \in Callers : WF_vars(writeFrame(c)) /\ WF_vars(await(c))

SpecCalls == InitConn /\ [][NextCalls]_vars /\ CallersRun

(***************************************************************************)
(* Properties of sendCall and close (SpecCalls).                           *)
(***************************************************************************)
Returned(c) == cl[c].pc = "idle" /\ cl[c].id # 0

\* an id handed out is larger than every id handed out before
IdsIncrease ==
  \A c \in Callers :
    (cl[c].pc = "idle" /\ cl'[c].pc = "write") =>
      /\ cl'[c].id \notin DOMAIN issued
      /\ \A i \in DOMAIN issued : cl'[c].id > i
      /\ issued'[cl'[c].id].by = c

\* no Pending Call is completed twice; the one in the table is not yet
\* completed; a call that has returned was completed
CompletedOnce ==
  /\ \A id \in DOMAIN issued :
       /\ issued[id].completed <= 1
       /\ id \in DOMAIN pending <=> issued[id].completed = 0
       /\ id \in DOMAIN pending => pending[id] = issued[id].by
  /\ \A c \in Callers : Returned(c) => issued[cl[c].id].completed = 1

\* a call returns the payload of the response frame that carried its id,
\* or the failure of a teardown
OwnResponse ==
  \A c \in Callers :
    Returned(c) =>
      /\ issued[cl[c].id].by = c
      /\ \/ cl[c].result = issued[cl[c].id].sent
         \/ cl[c].result = "connection closed" /\ conn = "closed"

\* C13: the ids sendCall hands out are strictly increasing and never reused,
\* every Pending Call is completed exactly once, and each of several
\* outstanding calls returns the payload of the response frame that carries
\* its own id, in whatever order the driver answers.
CallsGetOwnResponse ==
  []CompletedOnce /\ []OwnResponse /\ [][IdsIncrease]_vars

\* C13 witness: two calls were outstanding, the driver answered the second
\* first and with another payload than the first; the later call has returned
\* its payload while the response to the earlier one is still in the pipe.
CallsGetOwnResponseWitness ==
  \E c \in Callers : \E d \in Callers \ {c} :
    /\ cl[c].pc = "wait" /\ cl[c].slot = "none" /\ cl[c].id = 1
    /\ Returned(d) /\ cl[d].id = 2 /\ cl[d].result = "q"
    /\ pipe = <<ResponseFrame(1, "p")>>

\* the Connection moves Created -> Running -> Closed and in no other way
ConnMoves ==
  conn' # conn => <<conn, conn'>> \in {<<"created", "running">>, <<"running", "closed">>}

\* the step that closes the Connection fails every outstanding Pending Call
ClosingFailsPending ==
  (conn # "closed" /\ conn' = "closed") =>
    \A id \in DOMAIN pending : cl'[pending[id]].slot = "connection closed"

\* on a closed Connection nothing is torn down a second time, and a call
\* made then fails at once
ClosedStays ==
  conn = "closed" =>
    /\ pending' = pending /\ proc' = proc /\ loop' = loop /\ issued' = issued
    /\ \A c \in Callers :
         /\ cl[c].pc # "idle" => cl'[c].slot = cl[c].slot
         /\ (cl[c].pc = "idle" /\ cl'[c] # cl[c]) =>
              (cl'[c].pc = "idle" /\ cl'[c].result = "connection closed")

\* on a closed Connection no Pending Call is left and every caller inside
\* sendCall has its result
ClosedFailsAll ==
  conn = "closed" =>
    /\ DOMAIN pending = {}
    /\ \A c \in Callers : cl[c].pc # "idle" => cl[c].slot # "none"

NoCallerInside == \A c \in Callers : cl[c].pc = "idle"

\* C14: the Connection moves only Created -> Running -> Closed and never
\* leaves Closed; close() on a closed Connection changes nothing; closing
\* completes every outstanding Pending Call with "connection closed"; a call
\* made on a closed Connection fails at once; and once the Connection is
\* closed every caller of sendCall returns.
ClosedUnblocksCallers ==
  /\ []ClosedFailsAll
  /\ [][ConnMoves /\ ClosingFailsPending /\ ClosedStays]_vars
  /\ (conn = "closed" ~> NoCallerInside)

\* C14 witness: on a closed Connection one call that was outstanding has
\* returned "connection closed" and a call made afterwards has failed at once.
ClosedUnblocksCallersWitness ==
  \E c \in Callers : \E d \in Callers \ {c} :
    /\ conn = "closed"
    /\ Returned(c) /\ cl[c].result = "connection closed"
    /\ cl[d].pc = "idle" /\ cl[d].id = 0 /\ cl[d].result = "connection closed"

(***************************************************************************)
(* Notifications: the driver announces and disposes objects and notifies   *)
(* them; the read loop keeps the Remote Object Registry and emits on the   *)
(* proxies.                                                                *)
(***************************************************************************)
\* notifications the read loop handles in one behaviour
MaxNotes == 3
\* request ids allocated in such a behaviour
MaxNoteIds == 1

Guids == {"A", "B"}

NoteFrame(kind, g) == [kind |-> kind, id |-> 0, guid |-> g, payload |-> "none"]

\* The driver writes a frame: an object is created or disposed, an event of
\* an object, or a response whose id no Pending Call has.
driverWrites(f) ==
  /\ proc = "running"
  /\ Len(pipe) < MaxPipe
  /\ f.kind = "event" => Len(delivered) + Len(logged) + Len(pipe) < MaxNotes
  /\ pipe' = Append(pipe, f)
  /\ UNCHANGED <<conn, loop, nextId, pending, cl, wire, registry, delivered, logged, issued, proc, NotConn>>

announce(g) == driverWrites(NoteFrame("create", g))

dispose(g) == driverWrites(NoteFrame("dispose", g))

notify(g) == driverWrites(NoteFrame("event", g))

respondUnknown == driverWrites(ResponseFrame(0, "p"))

\* register(guid, proxy): a create notification for a new GUID.
readCreate ==
  /\ Reading
  /\ Head(pipe).kind = "create"
  /\ Head(pipe).guid \notin registry
  /\ registry' = registry \cup {Head(pipe).guid}
  /\ pipe' = Tail(pipe)
  /\ UNCHANGED <<conn, loop, nextId, pending, cl, wire, delivered, logged, issued, proc, NotConn>>

\* register fails, fatally, when the GUID is registered.
readCreateTwice ==
  /\ Reading
  /\ Head(pipe).kind = "create"
  /\ Head(pipe).guid \in registry
  /\ Teardown("connection closed")
  /\ pipe' = Tail(pipe)
  /\ UNCHANGED <<nextId, wire, registry, delivered, logged, NotConn>>

\* unregister(guid): a disposal notification.
readDispose ==
  /\ Reading
  /\ Head(pipe).kind = "dispose"
  /\ registry' = registry \ {Head(pipe).guid}
  /\ pipe' = Tail(pipe)
  /\ UNCHANGED <<conn, loop, nextId, pending, cl, wire, delivered, logged, issued, proc, NotConn>>

\* A notification whose GUID is registered: emit on that proxy's emitter.
readNotification ==
  /\ Reading
  /\ Head(pipe).kind = "event"
  /\ Head(pipe).guid \in registry
  /\ delivered' = Append(delivered, Head(pipe).guid)
  /\ pipe' = Tail(pipe)
  /\ UNCHANGED <<conn, loop, nextId, pending, cl, wire, registry, logged, issued, proc, NotConn>>

\* A read loop that would take a registry miss for a transport error.
dropNotificationFatal ==
  /\ Reading
  /\ Head(pipe).kind = "event"
  /\ Head(pipe).guid \notin registry
  /\ Teardown("connection closed")
  /\ pipe' = Tail(pipe)
  /\ UNCHANGED <<nextId, wire, registry, delivered, logged, NotConn>>

\* A notification whose GUID is not registered: logged and dropped.
dropNotification ==
  /\ Reading
  /\ Head(pipe).kind = "event"
  /\ Head(pipe).guid \notin registry
  /\ logged' = Append(logged, [guid |-> Head(pipe).guid, after |-> Len(delivered)])
  /\ pipe' = Tail(pipe)
  /\ UNCHANGED <<conn, loop, nextId, pending, cl, wire, registry, delivered, issued, proc, NotConn>>

\* A response whose id is not in the table: fatal protocol error.
readUnknownResponse ==
  /\ Reading
  /\ Head(pipe).kind = "response"
  /\ Head(pipe).id \notin DOMAIN pending
  /\ Teardown("connection closed")
  /\ pipe' = Tail(pipe)
  /\ UNCHANGED <<nextId, wire, registry, delivered, logged, NotConn>>

NextNotify ==
  \/ start \/ close \/ readError
  \/ \E g \in Guids : announce(g) \/ dispose(g) \/ notify(g)
  \/ respondUnknown
  \/ readCreate \/ readCreateTwice \/ readDispose \/ readNotification \/ dropNotification
  \/ readUnknownResponse
  \/ nextId <= MaxNoteIds /\ sendCall("c1")
  \/ writeFrame("c1") \/ await("c1")
  \/ \E id \in 1..MaxNoteIds : respond(id, "p")
  \/ readResponse

SpecNotify == InitConn /\ [][NextNotify]_vars

LoopReads == Reading /\ pipe' = Tail(pipe)

\* reading a notification for a GUID that is not registered leaves the loop
\* running and everything but the log as it is: no proxy is emitted on
MissIsAbsorbed ==
  (LoopReads /\ Head(pipe).kind = "event" /\ Head(pipe).guid \notin registry) =>
    /\ loop' = "active" /\ conn' = conn /\ proc' = proc
    /\ delivered' = delivered
    /\ registry' = registry /\ pending' = pending /\ cl' = cl

\* no proxy is emitted on but for a notification read for its registered GUID
EmitsOnlyRegistered ==
  delivered' # delivered =>
    /\ LoopReads /\ Head(pipe).kind = "event" /\ Head(pipe).guid \in registry
    /\ delivered' = Append(delivered, Head(pipe).guid)

\* reading a response whose id has no Pending Call ends the loop and closes
\* the Connection
UnknownIdIsFatal ==
  (LoopReads /\ Head(pipe).kind = "response" /\ Head(pipe).id \notin DOMAIN pending) =>
    conn' = "closed" /\ loop' = "ended"

\* C15: a notification for a GUID that is not, or no longer, in the registry
\* neither ends the read loop nor emits on any proxy, and the loop reads the
\* frames that follow; a response frame with an unknown id is fatal.
RegistryMissAbsorbed ==
  [][MissIsAbsorbed /\ EmitsOnlyRegistered /\ UnknownIdIsFatal]_vars

\* C15 witness: an object was notified and then disposed, a notification for
\* it was dropped, and the loop has since delivered another notification.
RegistryMissAbsorbedWitness ==
  /\ loop = "active"
  /\ Len(logged) = 1 /\ Len(delivered) = 2
  /\ logged[1].after = 1
  /\ delivered[1] = logged[1].guid

====
